---- MODULE Spec2Model ----
(***************************************************************************)
(* index.js of dolt-knexjs-example: one script, main, that drives a Dolt   *)
(* database through a knex connection pool.  The database (branches,       *)
(* commits, working sets, tables) is the state the script's statements act *)
(* on; the pool's sessions, an open transaction and main's position are    *)
(* the state of the process.                                               *)
(*                                                                         *)
(* The server is modelled by what its answers do to that state:            *)
(*  - DOLT_CHECKOUT moves the session that served it, no other;            *)
(*  - DOLT_BRANCH fails on a name that exists, DOLT_BRANCH -D on one that  *)
(*    does not;                                                            *)
(*  - DOLT_RESET --hard makes head and working set the target commit;      *)
(*  - DOLT_COMMIT with nothing to commit is answered either with the       *)
(*    head's hash or with an error: both are taken;                        *)
(*  - ALTER TABLE inside a transaction either commits it implicitly (the   *)
(*    MySQL rule) or is part of it: ddlImplicitCommit, both are taken;     *)
(*  - DOLT_MERGE fast-forwards when it can and merges cell by cell         *)
(*    otherwise.                                                           *)
(***************************************************************************)
EXTENDS Integers, Sequences, FiniteSets, TLC

VARIABLES
    commits,            \* the commit graph: commit hash i is commits[i]
    branches,           \* branch name -> [head, working]
    ddlImplicitCommit,  \* whether the server ends a transaction at a DDL statement
    pool,               \* the sessions idle in the pool: each is its checked-out branch
    trx,                \* the transaction a db.transaction callback runs in, or NoTrx
    destroyed,          \* db.destroy() has run
    step,               \* the call of main being executed (index into MainCalls)
    at,                 \* the await reached inside that call
    local,              \* the result the call keeps across awaits (res, logs)
    runState,           \* main's promise: running, resolved or rejected
    usingBranch,        \* the branch of the last "Using branch:" line
    lastStmt,           \* the statement sent last, the session that served it, its outcome
    caught,             \* console.error(err) ran in a catch block of this run
    mergeLog,           \* what doltMerge printed in this run
    callers             \* concurrent callers of createBranch (SpecCallers only)

vars == <<commits, branches, ddlImplicitCommit, pool, trx, destroyed, step, at,
          local, runState, usingBranch, lastStmt, caught, mergeLog, callers>>

dbVars == <<commits, branches>>

(***************************************************************************)
(* Program constants                                                       *)
(***************************************************************************)
PoolMin == 0
PoolMax == 7

DefaultBranch == "main"
DemoBranches == {"modify_data", "modify_schema"}
TableNames == {"employees", "teams", "employees_teams"}

NULL == "NULL"

Employee(id, last, first) ==
    [id |-> id, last_name |-> last, first_name |-> first, start_date |-> NULL]

Team(id, name) == [id |-> id, name |-> name]

Membership(e, t) == [employee_id |-> e, team_id |-> t]

\* the rows insertData loads
EmployeeRows ==
    { Employee(0, "Sehn", "Tim"), Employee(1, "Hendriks", "Brian"),
      Employee(2, "Son", "Aaron"), Employee(3, "Fitzgerald", "Brian") }

TeamRows == { Team(0, "Engineering"), Team(1, "Sales") }

MembershipRows ==
    { Membership(0, 0), Membership(1, 0), Membership(2, 0),
      Membership(0, 1), Membership(3, 1) }

(***************************************************************************)
(* Table contents.  A root is the content of the database at a commit or   *)
(* in a working set.                                                       *)
(***************************************************************************)
EmptyRoot ==
    [tables |-> {}, columns |-> {}, employees |-> {}, teams |-> {},
     employees_teams |-> {}]

PrimaryKey(t) ==
    IF t = "employees_teams" THEN {"employee_id", "team_id"} ELSE {"id"}

KeyOf(t, row) == [c \in PrimaryKey(t) |-> row[c]]

Keys(t, rows) == { KeyOf(t, r) : r \in rows }

RowAt(t, rows, k) == CHOOSE r \in rows : KeyOf(t, r) = k

\* the outcome of one statement: the root it leaves, or the server's error
Done(root) == [ok |-> TRUE, root |-> root, err |-> "ok"]
Fail(root, e) == [ok |-> FALSE, root |-> root, err |-> e]

\* employees_teams references employees(id) and teams(id)
ForeignKeysHold(root, t, row) ==
    t = "employees_teams" =>
        /\ \E e \in root.employees : e.id = row.employee_id
        /\ \E m \in root.teams : m.id = row.team_id

CreateTable(root, t) ==
    IF t \in root.tables THEN Fail(root, "ER_TABLE_EXISTS")
    ELSE IF t = "employees_teams" /\ ~({"employees", "teams"} \subseteq root.tables)
    THEN Fail(root, "ER_NO_REFERENCED_TABLE")
    ELSE Done([root EXCEPT !.tables = @ \cup {t}, ![t] = {}])

DropTable(root, t) ==
    IF t \notin root.tables THEN Fail(root, "ER_BAD_TABLE")
    ELSE IF t # "employees_teams" /\ "employees_teams" \in root.tables
    THEN Fail(root, "ER_FK_REFERENCED")
    ELSE Done([root EXCEPT !.tables = @ \ {t}, ![t] = {},
                           !.columns = IF t = "employees" THEN {} ELSE @])

\* the builder is never awaited: the statement is not sent
InsertRowNotSent(root, t, row) == Done(root)

\* insert(row): a duplicate primary key is an error
InsertRow(root, t, row) ==
    IF t \notin root.tables THEN Fail(root, "ER_NO_SUCH_TABLE")
    ELSE IF KeyOf(t, row) \in Keys(t, root[t]) THEN Fail(root, "ER_DUP_ENTRY")
    ELSE IF ~ForeignKeysHold(root, t, row) THEN Fail(root, "ER_NO_REFERENCED_ROW")
    ELSE Done([root EXCEPT ![t] = @ \cup {row}])

\* insert(row).onConflict().merge(): on a duplicate key the columns given
\* overwrite those of the row that is there
UpsertRow(root, t, row, given) ==
    IF t \notin root.tables THEN Fail(root, "ER_NO_SUCH_TABLE")
    ELSE IF ~ForeignKeysHold(root, t, row) THEN Fail(root, "ER_NO_REFERENCED_ROW")
    ELSE IF KeyOf(t, row) \in Keys(t, root[t])
    THEN LET old == RowAt(t, root[t], KeyOf(t, row))
             new == [c \in DOMAIN old |-> IF c \in given THEN row[c] ELSE old[c]]
         IN  Done([root EXCEPT ![t] = (@ \ {old}) \cup {new}])
    ELSE Done([root EXCEPT ![t] = @ \cup {row}])

RECURSIVE UpsertRows(_, _, _, _)
UpsertRows(root, t, rows, given) ==
    IF rows = {} THEN Done(root)
    ELSE LET row == CHOOSE r \in rows : TRUE
             one == UpsertRow(root, t, row, given)
         IN  IF one.ok THEN UpsertRows(one.root, t, rows \ {row}, given) ELSE Fail(root, one.err)

MatchesAny(row, wheres) ==
    \E i \in 1..Len(wheres) : row[wheres[i][1]] = wheres[i][2]

\* a chain of .where(column, value) calls: a row is selected when it
\* satisfies every one of them
Matches(row, wheres) ==
    \A i \in 1..Len(wheres) : row[wheres[i][1]] = wheres[i][2]

KnownColumn(root, t, c) ==
    \/ c \in PrimaryKey(t)
    \/ t = "employees" /\ c \in {"last_name", "first_name"} \cup root.columns
    \/ t = "teams" /\ c = "name"

UpdateWhere(root, t, wheres, column, value) ==
    IF t \notin root.tables THEN Fail(root, "ER_NO_SUCH_TABLE")
    ELSE IF ~KnownColumn(root, t, column) THEN Fail(root, "ER_BAD_FIELD")
    ELSE Done([root EXCEPT ![t] =
                 { IF Matches(r, wheres) THEN [r EXCEPT ![column] = value] ELSE r : r \in @ }])

DeleteWhere(root, t, wheres) ==
    IF t \notin root.tables THEN Fail(root, "ER_NO_SUCH_TABLE")
    ELSE Done([root EXCEPT ![t] = { r \in @ : ~Matches(r, wheres) }])

\* alterTable("employees", table.date("start_date"))
AddColumn(root, t, column) ==
    IF t \notin root.tables THEN Fail(root, "ER_NO_SUCH_TABLE")
    ELSE IF KnownColumn(root, t, column) THEN Fail(root, "ER_DUP_FIELDNAME")
    ELSE Done([root EXCEPT !.columns = @ \cup {column}])

(***************************************************************************)
(* Version control: commits, branches, reset, merge.                       *)
(***************************************************************************)
Commit(root, parents, author, message) ==
    [root |-> root, parents |-> parents, author |-> author, message |-> message]

InitialCommit == Commit(EmptyRoot, {}, "dolt", "Initialize data repository")

RECURSIVE Ancestors(_, _)
Ancestors(cs, h) == {h} \cup UNION { Ancestors(cs, p) : p \in cs[h].parents }

\* commits no branch reaches are dropped and the rest renumbered in order:
\* a hash stands for the commit, not for the time it was written
Reachable(cs, bs) == UNION { Ancestors(cs, bs[b].head) : b \in DOMAIN bs }

Renumber(keep, h) == Cardinality({ j \in keep : j <= h })

Normalize(cs, bs) ==
    LET keep == Reachable(cs, bs)
        old(n) == CHOOSE h \in keep : Renumber(keep, h) = n
    IN  [commits |-> [n \in 1..Cardinality(keep) |->
                        [cs[old(n)] EXCEPT !.parents = { Renumber(keep, p) : p \in @ }]],
         branches |-> [b \in DOMAIN bs |-> [bs[b] EXCEPT !.head = Renumber(keep, @)]]]

Changed(db, err) == [ok |-> err = "ok", err |-> err, commits |-> db.commits, branches |-> db.branches]

Unchanged(cs, bs, err) == Changed([commits |-> cs, branches |-> bs], err)

\* SELECT commit_hash FROM dolt_log ORDER BY date ASC LIMIT 1
EarliestCommit(cs, bs, session) ==
    CHOOSE h \in Ancestors(cs, bs[session].head) :
        \A g \in Ancestors(cs, bs[session].head) : h <= g

Dirty(cs, bs, b) == bs[b].working # cs[bs[b].head].root

\* CALL DOLT_CHECKOUT(branch): the session moves, the working sets stay
DoltCheckout(bs, branch) ==
    IF branch \in DOMAIN bs THEN "ok" ELSE "branch not found"

\* CALL DOLT_BRANCH(name): a new branch at the session's HEAD
DoltBranch(cs, bs, session, name) ==
    IF name \in DOMAIN bs THEN Unchanged(cs, bs, "branch already exists")
    ELSE Unchanged(cs,
                   [b \in DOMAIN bs \cup {name} |->
                      IF b = name
                      THEN [head |-> bs[session].head, working |-> cs[bs[session].head].root]
                      ELSE bs[b]],
                   "ok")

\* CALL DOLT_BRANCH('-D', name)
DoltBranchDelete(cs, bs, session, name) ==
    IF name \notin DOMAIN bs THEN Unchanged(cs, bs, "branch not found")
    ELSE IF name = session THEN Unchanged(cs, bs, "cannot delete checked out branch")
    ELSE Changed(Normalize(cs, [b \in DOMAIN bs \ {name} |-> bs[b]]), "ok")

\* CALL DOLT_RESET('--hard', target): head and working set become target
DoltReset(cs, bs, session, target) ==
    IF target \notin DOMAIN cs THEN Unchanged(cs, bs, "invalid ref spec")
    ELSE Changed(Normalize(cs, [bs EXCEPT ![session] =
                                  [head |-> target, working |-> cs[target].root]]), "ok")

\* CALL DOLT_COMMIT('--author', author, '-Am', message) with changes to commit
DoltCommit(cs, bs, session, author, message) ==
    Unchanged(Append(cs, Commit(bs[session].working, {bs[session].head}, author, message)),
              [bs EXCEPT ![session].head = Len(cs) + 1],
              "ok")

\* three-way merge of one table, cell by cell
Absent == [absent |-> TRUE]

Lookup(t, rows, k) == IF k \in Keys(t, rows) THEN RowAt(t, rows, k) ELSE Absent

CellsConflict(b, o, th) ==
    \E c \in DOMAIN b : o[c] # b[c] /\ th[c] # b[c] /\ o[c] # th[c]

RowConflict(b, o, th) ==
    /\ o # th /\ o # b /\ th # b
    /\ \/ b = Absent \/ o = Absent \/ th = Absent
       \/ CellsConflict(b, o, th)

MergeRow(b, o, th) ==
    IF o = th \/ th = b THEN o
    ELSE IF o = b THEN th
    ELSE IF RowConflict(b, o, th) THEN o
    ELSE [c \in DOMAIN b |-> IF o[c] # b[c] THEN o[c] ELSE th[c]]

MergeTable(t, base, ours, theirs) ==
    LET keys == Keys(t, base) \cup Keys(t, ours) \cup Keys(t, theirs)
        merged(k) == MergeRow(Lookup(t, base, k), Lookup(t, ours, k), Lookup(t, theirs, k))
    IN  [rows |-> { merged(k) : k \in keys } \ {Absent},
         conflicts |-> Cardinality({ k \in keys :
             RowConflict(Lookup(t, base, k), Lookup(t, ours, k), Lookup(t, theirs, k)) })]

MergeSet(base, ours, theirs) ==
    { x \in ours \cup theirs : (x \in ours /\ x \in theirs) \/ x \notin base }

MergeRoots(base, ours, theirs) ==
    LET e == MergeTable("employees", base.employees, ours.employees, theirs.employees)
        m == MergeTable("teams", base.teams, ours.teams, theirs.teams)
        j == MergeTable("employees_teams", base.employees_teams, ours.employees_teams,
                        theirs.employees_teams)
    IN  [root |-> [tables |-> MergeSet(base.tables, ours.tables, theirs.tables),
                   columns |-> MergeSet(base.columns, ours.columns, theirs.columns),
                   employees |-> e.rows, teams |-> m.rows, employees_teams |-> j.rows],
         conflicts |-> e.conflicts + m.conflicts + j.conflicts]

MergeBase(cs, a, b) ==
    CHOOSE h \in Ancestors(cs, a) \cap Ancestors(cs, b) :
        \A g \in Ancestors(cs, a) \cap Ancestors(cs, b) : g <= h

MergeResult(db, err, ff, conflicts) ==
    [ok |-> err = "ok", err |-> err, commits |-> db.commits, branches |-> db.branches,
     fast_forward |-> ff, conflicts |-> conflicts]

IsFastForward(cs, ours, theirs) == ours \in Ancestors(cs, theirs)

\* CALL DOLT_MERGE(source) on the session's branch
DoltMerge(cs, bs, session, source) ==
    LET db == [commits |-> cs, branches |-> bs] IN
    IF source \notin DOMAIN bs THEN MergeResult(db, "branch not found", FALSE, 0)
    ELSE LET ours == bs[session].head
             theirs == bs[source].head
         IN
         IF theirs \in Ancestors(cs, ours)
         THEN MergeResult(db, "ok", FALSE, 0)      \* already up to date
         ELSE IF Dirty(cs, bs, session)
         THEN MergeResult(db, "local changes would be stomped by merge", FALSE, 0)
         ELSE IF IsFastForward(cs, ours, theirs)
         THEN MergeResult([commits |-> cs,
                           branches |-> [bs EXCEPT ![session] =
                                           [head |-> theirs, working |-> cs[theirs].root]]],
                          "ok", TRUE, 0)
         ELSE LET base == MergeBase(cs, ours, theirs)
                  m == MergeRoots(cs[base].root, cs[ours].root, cs[theirs].root)
              IN  IF m.conflicts > 0
                  THEN MergeResult([commits |-> cs,
                                    branches |-> [bs EXCEPT ![session].working = m.root]],
                                   "ok", FALSE, m.conflicts)
                  ELSE MergeResult(
                         [commits |-> Append(cs, Commit(m.root, {ours, theirs}, "merge",
                                                        "Merge branch")),
                          branches |-> [bs EXCEPT ![session] =
                                          [head |-> Len(cs) + 1, working |-> m.root]]],
                         "ok", FALSE, 0)

(***************************************************************************)
(* main: the calls it awaits, in order.                                    *)
(***************************************************************************)
C(fn, arg, arg2) == [fn |-> fn, arg |-> arg, arg2 |-> arg2]

MainCalls ==
    << C("checkoutBranch", "main", ""),
       C("printActiveBranch", "", ""),
       C("resetDatabase", "", ""),
       C("setupDatabase", "", ""),
       C("printTables", "", ""),
       C("doltCommit", "Taylor <taylor@dolthub.com>", "Created tables"),
       C("printCommitLog", "", ""),
       C("insertData", "", ""),
       C("printSummaryTable", "", ""),
       C("printStatus", "", ""),
       C("printDiff", "employees", ""),
       C("doltCommit", "Tim <tim@dolthub.com>", "Inserted data into tables"),
       C("printCommitLog", "", ""),
       C("dropTable", "employees_teams", ""),
       C("printStatus", "", ""),
       C("printTables", "", ""),
       C("doltResetHard", "", ""),
       C("printStatus", "", ""),
       C("printTables", "", ""),
       C("createBranch", "modify_data", ""),
       C("checkoutBranch", "modify_data", ""),
       C("printActiveBranch", "", ""),
       C("modifyData", "", ""),
       C("printStatus", "", ""),
       C("printDiff", "employees", ""),
       C("printDiff", "employees_teams", ""),
       C("printSummaryTable", "", ""),
       C("doltCommit", "Brian <brian@dolthub.com>", "Modified data on branch"),
       C("printCommitLog", "", ""),
       C("checkoutBranch", "main", ""),
       C("createBranch", "modify_schema", ""),
       C("checkoutBranch", "modify_schema", ""),
       C("printActiveBranch", "", ""),
       C("modifySchema", "", ""),
       C("printStatus", "", ""),
       C("printDiff", "employees", ""),
       C("printSummaryTable", "", ""),
       C("doltCommit", "Taylor <taylor@dolthub.com>", "Modified schema on branch"),
       C("printCommitLog", "", ""),
       C("checkoutBranch", "main", ""),
       C("printActiveBranch", "", ""),
       C("printCommitLog", "", ""),
       C("printSummaryTable", "", ""),
       C("doltMerge", "modify_data", ""),
       C("printSummaryTable", "", ""),
       C("printCommitLog", "", ""),
       C("doltMerge", "modify_schema", ""),
       C("printSummaryTable", "", ""),
       C("printCommitLog", "", ""),
       C("destroy", "", "") >>

Call == MainCalls[step]

NoTrx == [held |-> FALSE, open |-> FALSE, conn |-> "none", start |-> EmptyRoot,
          root |-> EmptyRoot]

NoStmt == [fn |-> "none", kind |-> "none", branch |-> "none", err |-> "ok",
           step |-> 0, at |-> 0]

(***************************************************************************)
(* The pool: a query takes the idle session if there is one, and opens a   *)
(* new one (on the default branch) otherwise; it gives the session back    *)
(* before its promise settles.                                             *)
(***************************************************************************)
InUse == IF trx.held THEN 1 ELSE 0

CanAcquire == pool # <<>> \/ Len(pool) + InUse < PoolMax

Session == IF pool # <<>> THEN Head(pool) ELSE DefaultBranch

Idle == IF pool # <<>> THEN Tail(pool) ELSE <<>>

Released(s) == Append(Idle, s)

Calling(fn) ==
    /\ runState = "running"
    /\ ~destroyed
    /\ Call.fn = fn
    /\ CanAcquire

Sent(kind, s, err) ==
    lastStmt' = [fn |-> Call.fn, kind |-> kind, branch |-> s, err |-> err,
                 step |-> step, at |-> at]

\* the call returns and main goes on to its next line
Return ==
    /\ step' = IF step = Len(MainCalls) THEN step ELSE step + 1
    /\ at' = 0
    /\ local' = 0
    /\ runState' = IF step = Len(MainCalls) THEN "resolved" ELSE "running"

\* the call goes on to its next await, keeping v
Await(v) ==
    /\ at' = at + 1
    /\ local' = v
    /\ UNCHANGED <<step, runState>>

\* the awaited promise rejects outside any try: main's promise rejects
Reject ==
    /\ runState' = "rejected"
    /\ UNCHANGED <<step, at, local>>

Working(s) == branches[s].working

OnWorking(s, r) ==
    [ok |-> r.ok, err |-> r.err, commits |-> commits,
     branches |-> [branches EXCEPT ![s].working = r.root]]

\* one statement outside a transaction, served by session s
Statement(kind, s, res, next) ==
    /\ Sent(kind, s, res.err)
    /\ commits' = res.commits
    /\ branches' = res.branches
    /\ pool' = Released(s)
    /\ IF res.ok THEN next ELSE Reject
    /\ UNCHANGED <<ddlImplicitCommit, trx, destroyed, usingBranch, caught, mergeLog, callers>>

\* a query that changes nothing
Query(kind, s, err, next) ==
    Statement(kind, s, Unchanged(commits, branches, err), next)

(***************************************************************************)
(* The functions main calls, one action each; `at` is the await reached.   *)
(***************************************************************************)
checkoutBranch ==
    /\ Calling("checkoutBranch")
    /\ LET s == Session
           err == DoltCheckout(branches, Call.arg)
       IN  /\ Sent("checkout", s, err)
           /\ IF err = "ok"
              THEN pool' = Released(Call.arg) /\ usingBranch' = Call.arg /\ Return
              ELSE pool' = Released(s) /\ UNCHANGED usingBranch /\ Reject
    /\ UNCHANGED <<commits, branches, ddlImplicitCommit, trx, destroyed, caught, mergeLog,
                   callers>>

printActiveBranch ==
    /\ Calling("printActiveBranch")
    /\ Query("session", Session, "ok", Return)

BranchRowsUnfiltered(bs, name) == <<DefaultBranch>>

\* the rows of dolt_branches whose name is `name`
BranchRows(bs, name) == IF name \in DOMAIN bs THEN <<name>> ELSE <<>>

BranchExistsAlways(res) == Len(res) >= 0

BranchExists(res) == Len(res) > 0

createBranch ==
    /\ Calling("createBranch")
    /\ \/ /\ at = 0
          /\ LET res == BranchRows(branches, Call.arg)
             IN  Query("branches", Session, "ok",
                       IF BranchExists(res) THEN Return ELSE Await(Len(res)))
       \/ /\ at = 1
          /\ Statement("branch", Session, DoltBranch(commits, branches, Session, Call.arg),
                       Return)

resetDatabase ==
    /\ Calling("resetDatabase")
    /\ \/ /\ at = 0
          /\ Query("log", Session, "ok", Await(EarliestCommit(commits, branches, Session)))
       \/ /\ at = 1
          /\ Statement("reset", Session, DoltReset(commits, branches, Session, local),
                       Await(local))
       \/ /\ at = 2
          /\ Statement("branch", Session,
                       DoltBranchDelete(commits, branches, Session, "modify_data"),
                       Await(local))
       \/ /\ at = 3
          /\ Statement("branch", Session,
                       DoltBranchDelete(commits, branches, Session, "modify_schema"),
                       Return)

setupDatabase ==
    /\ Calling("setupDatabase")
    /\ \/ /\ at = 0
          /\ Statement("table", Session,
                       OnWorking(Session, CreateTable(Working(Session), "employees")),
                       Await(0))
       \/ /\ at = 1
          /\ Statement("table", Session,
                       OnWorking(Session, CreateTable(Working(Session), "teams")),
                       Await(0))
       \/ /\ at = 2
          /\ Statement("table", Session,
                       OnWorking(Session, CreateTable(Working(Session), "employees_teams")),
                       Return)

printTables ==
    /\ Calling("printTables")
    /\ Query("table", Session, "ok", Return)

doltCommit ==
    /\ Calling("doltCommit")
    /\ IF Dirty(commits, branches, Session)
       THEN Statement("commit", Session,
                      DoltCommit(commits, branches, Session, Call.arg, Call.arg2), Return)
       ELSE \* nothing to commit: the server answers with the head's hash, or an error
            \/ Query("commit", Session, "ok", Return)
            \/ Query("commit", Session, "nothing to commit", Return)

printCommitLog ==
    /\ Calling("printCommitLog")
    /\ Query("log", Session, "ok", Return)

insertData ==
    /\ Calling("insertData")
    /\ \/ /\ at = 0
          /\ Statement("row", Session,
                       OnWorking(Session,
                           UpsertRows(Working(Session), "employees", EmployeeRows,
                                      {"id", "last_name", "first_name"})),
                       Await(0))
       \/ /\ at = 1
          /\ Statement("row", Session,
                       OnWorking(Session,
                           UpsertRows(Working(Session), "teams", TeamRows, {"id", "name"})),
                       Await(0))
       \/ /\ at = 2
          /\ Statement("row", Session,
                       OnWorking(Session,
                           UpsertRows(Working(Session), "employees_teams", MembershipRows,
                                      {"employee_id", "team_id"})),
                       Return)

printSummaryTable ==
    /\ Calling("printSummaryTable")
    /\ \/ /\ at = 0
          /\ Query("table", Session, "ok", Await(0))
       \/ /\ at = 1
          /\ Query("row", Session,
                   IF TableNames \subseteq Working(Session).tables
                   THEN "ok" ELSE "ER_NO_SUCH_TABLE",
                   Return)

printStatus ==
    /\ Calling("printStatus")
    /\ Query("status", Session, "ok", Return)

printDiff ==
    /\ Calling("printDiff")
    /\ Query("diff", Session,
             IF Call.arg \in Working(Session).tables
                             \cup commits[branches[Session].head].root.tables
             THEN "ok" ELSE "ER_NO_SUCH_TABLE",
             Return)

dropTable ==
    /\ Calling("dropTable")
    /\ Statement("table", Session,
                 OnWorking(Session, DropTable(Working(Session), Call.arg)), Return)

\* doltResetHard() without a commit: reset to HEAD
doltResetHard ==
    /\ Calling("doltResetHard")
    /\ Statement("reset", Session,
                 DoltReset(commits, branches, Session, branches[Session].head), Return)

doltMerge ==
    /\ Calling("doltMerge")
    /\ LET s == Session
           res == DoltMerge(commits, branches, s, Call.arg)
       IN  /\ Sent("merge", s, res.err)
           /\ commits' = res.commits
           /\ branches' = res.branches
           /\ pool' = Released(s)
           /\ IF res.ok
              THEN /\ mergeLog' = Append(mergeLog,
                                    [branch |-> Call.arg, fast_forward |-> res.fast_forward,
                                     conflicts |-> res.conflicts])
                   /\ Return
              ELSE UNCHANGED mergeLog /\ Reject
    /\ UNCHANGED <<ddlImplicitCommit, trx, destroyed, usingBranch, caught, callers>>

\* await db.destroy()
destroy ==
    /\ runState = "running"
    /\ Call.fn = "destroy"
    /\ destroyed' = TRUE
    /\ pool' = <<>>
    /\ Return
    /\ UNCHANGED <<commits, branches, ddlImplicitCommit, trx, usingBranch, lastStmt, caught,
                   mergeLog, callers>>

(***************************************************************************)
(* db.transaction(callback) inside try/catch.  knex takes a session for     *)
(* the callback, sends BEGIN, then COMMIT when the callback resolves and    *)
(* ROLLBACK when it rejects; the rejection reaches the catch block, which   *)
(* logs it, and the function returns.                                       *)
(***************************************************************************)
Begin(s) ==
    /\ Sent("begin", s, "ok")
    /\ trx' = [held |-> TRUE, open |-> TRUE, conn |-> s, start |-> Working(s),
               root |-> Working(s)]
    /\ pool' = Idle
    /\ Await(0)
    /\ UNCHANGED <<commits, branches, ddlImplicitCommit, destroyed, usingBranch, caught,
                   mergeLog, callers>>

\* catch (err) { console.error(err) }: what the open transaction wrote is dropped
Caught(kind, err) ==
    /\ Sent(kind, IF trx.held THEN trx.conn ELSE Session, err)
    /\ trx' = NoTrx
    /\ pool' = IF trx.held THEN Append(pool, trx.conn) ELSE pool
    /\ caught' = TRUE
    /\ Return
    /\ UNCHANGED <<commits, branches, ddlImplicitCommit, destroyed, usingBranch, mergeLog,
                   callers>>

\* a statement of the callback; a DDL statement ends the transaction on a
\* server that commits implicitly, and what follows it is then autocommitted
InTrx(kind, r, ddl) ==
    IF r.ok
    THEN LET open == trx.open /\ ~(ddl /\ ddlImplicitCommit) IN
         /\ Sent(kind, trx.conn, "ok")
         /\ trx' = [trx EXCEPT !.root = r.root, !.open = open]
         /\ branches' = IF open THEN branches
                        ELSE [branches EXCEPT ![trx.conn].working = r.root]
         /\ Await(0)
         /\ UNCHANGED <<commits, ddlImplicitCommit, pool, destroyed, usingBranch, caught,
                        mergeLog, callers>>
    ELSE Caught(kind, r.err)

CommitTrx ==
    /\ Sent("commit_trx", trx.conn, "ok")
    /\ branches' = IF trx.open THEN [branches EXCEPT ![trx.conn].working = trx.root]
                   ELSE branches
    /\ trx' = NoTrx
    /\ pool' = Append(pool, trx.conn)
    /\ Return
    /\ UNCHANGED <<commits, ddlImplicitCommit, destroyed, usingBranch, caught, mergeLog,
                   callers>>

\* .where("employee_id", 0).where("employee_id", 1)
DeletePredicate == << <<"employee_id", 0>>, <<"employee_id", 1>> >>

modifyData ==
    /\ Calling("modifyData")
    /\ \/ at = 0 /\ Begin(Session)
       \/ at = 1 /\ InTrx("row", UpdateWhere(trx.root, "employees",
                                             << <<"first_name", "Tim">> >>,
                                             "first_name", "Timothy"), FALSE)
       \/ at = 2 /\ InTrx("row", InsertRow(trx.root, "employees",
                                           Employee(4, "Bantle", "Taylor")), FALSE)
       \/ at = 3 /\ InTrx("row", InsertRow(trx.root, "employees_teams", Membership(4, 0)),
                          FALSE)
       \/ at = 4 /\ InTrx("row", DeleteWhere(trx.root, "employees_teams", DeletePredicate),
                          FALSE)
       \/ at = 5 /\ CommitTrx

StartDate(id) == IF id = 3 THEN "2021-04-19" ELSE "2018-08-06"

modifySchema ==
    /\ Calling("modifySchema")
    /\ \/ at = 0 /\ Begin(Session)
       \/ at = 1 /\ InTrx("table", AddColumn(trx.root, "employees", "start_date"), TRUE)
       \/ /\ at \in 2..5
          /\ InTrx("row", UpdateWhere(trx.root, "employees", << <<"id", at - 2>> >>,
                                      "start_date", StartDate(at - 2)), FALSE)
       \/ at = 6 /\ CommitTrx

(***************************************************************************)
(* What the script does not control.                                       *)
(***************************************************************************)
\* an awaited query rejects for a reason of the connection or the server
\* (the statement has no effect): inside modifyData and modifySchema the
\* catch block takes it, anywhere else main's promise rejects
queryRejects ==
    /\ runState = "running"
    /\ ~destroyed
    /\ Call.fn # "destroy"
    /\ IF Call.fn \in {"modifyData", "modifySchema"}
       THEN Caught("error", "ECONNRESET")
       ELSE /\ Sent("error", Session, "ECONNRESET")
            /\ pool' = Idle
            /\ Reject
            /\ UNCHANGED <<commits, branches, ddlImplicitCommit, trx, destroyed, usingBranch,
                           caught, mergeLog, callers>>

\* pool: { min: 0 }: no idle session is kept; one that is closed is replaced,
\* at the next query, by a new session on the default branch
connectionClosed ==
    /\ runState = "running"
    /\ Len(pool) > PoolMin
    /\ pool' = Tail(pool)
    /\ UNCHANGED <<commits, branches, ddlImplicitCommit, trx, destroyed, step, at, local,
                   runState, usingBranch, lastStmt, caught, mergeLog, callers>>

\* node index.js, again: the database is as the last run left it
startProcess ==
    /\ runState # "running"
    /\ step' = 1
    /\ at' = 0
    /\ local' = 0
    /\ runState' = "running"
    /\ pool' = <<>>
    /\ trx' = NoTrx
    /\ destroyed' = FALSE
    /\ usingBranch' = "none"
    /\ lastStmt' = NoStmt
    /\ caught' = FALSE
    /\ mergeLog' = <<>>
    /\ UNCHANGED <<commits, branches, ddlImplicitCommit, callers>>

(***************************************************************************)
(* Spec: runs of main against a database that holds the initial commit     *)
(* and any of the two demonstration branches.                              *)
(***************************************************************************)
InitProcess ==
    /\ step = 1
    /\ at = 0
    /\ local = 0
    /\ runState = "running"
    /\ pool = <<>>
    /\ trx = NoTrx
    /\ destroyed = FALSE
    /\ usingBranch = "none"
    /\ lastStmt = NoStmt
    /\ caught = FALSE
    /\ mergeLog = <<>>

Init ==
    /\ commits = <<InitialCommit>>
    /\ \E present \in SUBSET DemoBranches :
          branches = [b \in {DefaultBranch} \cup present |->
                        [head |-> 1, working |-> EmptyRoot]]
    /\ ddlImplicitCommit \in BOOLEAN
    /\ InitProcess
    /\ callers = <<>>

Next ==
    \/ checkoutBranch
    \/ printActiveBranch
    \/ createBranch
    \/ resetDatabase
    \/ setupDatabase
    \/ printTables
    \/ doltCommit
    \/ printCommitLog
    \/ insertData
    \/ printSummaryTable
    \/ printStatus
    \/ printDiff
    \/ dropTable
    \/ doltResetHard
    \/ modifyData
    \/ modifySchema
    \/ doltMerge
    \/ destroy
    \/ queryRejects
    \/ connectionClosed
    \/ startProcess

Spec == Init /\ [][Next]_vars

(***************************************************************************)
(* SpecData: modifyData on its own, from every content of the tables up    *)
(* to MaxEmployeeId, main standing at its call.                            *)
(***************************************************************************)
MaxEmployeeId == 4

SampleEmployee(i) ==
    IF \E e \in EmployeeRows : e.id = i
    THEN CHOOSE e \in EmployeeRows : e.id = i
    ELSE Employee(i, "Bantle", "Taylor")

ModifyDataCall == CHOOSE i \in 1..Len(MainCalls) : MainCalls[i].fn = "modifyData"

InitData ==
    /\ commits = <<InitialCommit>>
    /\ \E ids \in SUBSET (0..MaxEmployeeId) :
          \E members \in SUBSET { Membership(e, t.id) : e \in ids, t \in TeamRows } :
             branches = [b \in {DefaultBranch} |->
                           [head |-> 1,
                            working |-> [tables |-> TableNames, columns |-> {},
                                         employees |-> { SampleEmployee(i) : i \in ids },
                                         teams |-> TeamRows,
                                         employees_teams |-> members]]]
    /\ ddlImplicitCommit = FALSE
    /\ step = ModifyDataCall
    /\ at = 0
    /\ local = 0
    /\ runState = "running"
    /\ pool = <<DefaultBranch>>
    /\ trx = NoTrx
    /\ destroyed = FALSE
    /\ usingBranch = DefaultBranch
    /\ lastStmt = NoStmt
    /\ caught = FALSE
    /\ mergeLog = <<>>
    /\ callers = <<>>

NextData == modifyData

SpecData == InitData /\ [][NextData]_vars

(***************************************************************************)
(* SpecCallers: createBranch called by NumCallers callers at once, each    *)
(* CallsEach times in sequence.  A caller is at its listing query (at 0)   *)
(* or at its create command (at 1); hist holds what each finished call     *)
(* did, absent whether its branch was missing when it started.             *)
(***************************************************************************)
NumCallers == 2
CallsEach == 2

CallDone(c, rows, issued, err) ==
    [callers[c] EXCEPT !.at = 0, !.res = <<>>,
                       !.hist = Append(@, [rows |-> rows, issued |-> issued, err |-> err])]

callCreateBranch(c) ==
    /\ Len(callers[c].hist) < CallsEach
    /\ \A i \in 1..Len(callers[c].hist) : callers[c].hist[i].err = "ok"
    /\ \/ /\ callers[c].at = 0
          /\ LET res == BranchRows(branches, callers[c].name)
             IN  callers' = [callers EXCEPT ![c] =
                               IF BranchExists(res)
                               THEN CallDone(c, Len(res), FALSE, "ok")
                               ELSE [callers[c] EXCEPT !.at = 1, !.res = res]]
          /\ UNCHANGED <<commits, branches>>
       \/ /\ callers[c].at = 1
          /\ LET r == DoltBranch(commits, branches, DefaultBranch, callers[c].name)
             IN  /\ commits' = r.commits
                 /\ branches' = r.branches
                 /\ callers' = [callers EXCEPT ![c] =
                                  CallDone(c, Len(callers[c].res), TRUE, r.err)]
    /\ UNCHANGED <<ddlImplicitCommit, pool, trx, destroyed, step, at, local, runState,
                   usingBranch, lastStmt, caught, mergeLog>>

InitCallers ==
    /\ commits = <<InitialCommit>>
    /\ \E present \in SUBSET DemoBranches :
          branches = [b \in {DefaultBranch} \cup present |->
                        [head |-> 1, working |-> EmptyRoot]]
    /\ ddlImplicitCommit = FALSE
    /\ InitProcess
    /\ \E names \in [1..NumCallers -> DemoBranches] :
          callers = [c \in 1..NumCallers |->
                       [name |-> names[c], absent |-> names[c] \notin DOMAIN branches,
                        at |-> 0, res |-> <<>>, hist |-> <<>>]]

NextCallers == \E c \in 1..NumCallers : callCreateBranch(c)

SpecCallers == InitCallers /\ [][NextCallers]_vars

(***************************************************************************)
(* The claims.                                                             *)
(***************************************************************************)
HeadCommit(b) == commits[branches[b].head]

InTransactionCall == runState = "running" /\ Call.fn \in {"modifyData", "modifySchema"}

\* C1: modifyData and modifySchema are atomic and never throw: when the call
\* returns after a statement of its transaction failed, the working set is
\* what it was when the transaction began; when it returns after every
\* statement succeeded, the working set holds all the transaction wrote; and
\* main goes on either way.
C1_TransactionAllOrNothing ==
    [][(InTransactionCall /\ step' = step + 1) =>
          /\ runState' = "running"
          /\ LET b == IF trx.held THEN trx.conn ELSE Session IN
             IF lastStmt'.err # "ok"
             THEN /\ caught'
                  /\ branches'[b].working = IF trx.held THEN trx.start ELSE branches[b].working
             ELSE branches'[b].working = trx.root]_vars

ScopedKinds == {"table", "row", "status", "diff", "log", "commit", "reset", "merge",
                "begin", "commit_trx"}

\* C2: after checkoutBranch(B), every table, row, status, diff, log, commit,
\* reset and merge statement, and every statement of a transaction, is served
\* by a session whose branch is B.
C2_StatementsRunOnCheckedOutBranch ==
    (usingBranch # "none" /\ lastStmt.kind \in ScopedKinds) => lastStmt.branch = usingBranch

\* C3: main is fail-fast: once a catch block has taken an error (the step that
\* failed did not produce its result), no further statement is sent in that run.
C3_NoStatementAfterFailure ==
    [][(caught /\ caught') => lastStmt' = lastStmt]_vars

\* the script's scenario at the first merge: modify_data's head is the commit
\* "Modified data on branch", made on top of main's head "Inserted data into
\* tables", and the session is on main
ReferenceScenario ==
    /\ Session = "main"
    /\ "modify_data" \in DOMAIN branches
    /\ HeadCommit("main").message = "Inserted data into tables"
    /\ HeadCommit("modify_data").message = "Modified data on branch"
    /\ HeadCommit("modify_data").parents = {branches["main"].head}

\* C5: in the script's scenario, doltMerge("modify_data") on main reports a
\* fast-forward with 0 conflicts and leaves 5 employees on main, the one with
\* id 4 among them.
C5_MergeOfModifyDataFastForwards ==
    [][(/\ Calling("doltMerge")
        /\ Call.arg = "modify_data"
        /\ ReferenceScenario
        /\ step' = step + 1) =>
          /\ mergeLog' = Append(mergeLog, [branch |-> "modify_data", fast_forward |-> TRUE,
                                           conflicts |-> 0])
          /\ Cardinality(branches'["main"].working.employees) = 5
          /\ \E e \in branches'["main"].working.employees : e.id = 4]_vars

C5_Witness ==
    /\ lastStmt.fn = "doltMerge"
    /\ mergeLog = <<[branch |-> "modify_data", fast_forward |-> TRUE, conflicts |-> 0]>>
    /\ HeadCommit("main").message = "Modified data on branch"
    /\ Cardinality(branches["main"].working.employees) = 5

HasDataChanges(root) ==
    /\ \E e \in root.employees : e.id = 0 /\ e.first_name = "Timothy"
    /\ \E e \in root.employees : e.id = 4
    /\ Membership(4, 0) \in root.employees_teams

HasSchemaChange(root) ==
    /\ "start_date" \in root.columns
    /\ \A i \in 0..3 : \E e \in root.employees : e.id = i /\ e.start_date = StartDate(i)

\* C6: when main has merged modify_data and then modify_schema, both merges
\* reported 0 conflicts and main holds the data changes of modifyData and the
\* schema change of modifySchema.
C6_MainHoldsBothChanges ==
    runState = "resolved" =>
        /\ Len(mergeLog) = 2
        /\ \A i \in 1..2 : mergeLog[i].conflicts = 0
        /\ HasDataChanges(branches["main"].working)
        /\ HasSchemaChange(branches["main"].working)

\* C7: a run of main that has ended, at its last line or at a failed step, has
\* torn the pool down.
C7_EndedRunDestroyedPool ==
    runState # "running" => destroyed

\* C8: resetDatabase, called on main, never fails on what the database holds:
\* no statement of it is answered with an error of the server.
C8_ResetDatabaseSucceeds ==
    (lastStmt.fn = "resetDatabase" /\ usingBranch = "main") =>
        lastStmt.err \in {"ok", "ECONNRESET"}

\* C10: the delete of modifyData removes no row, and a modifyData that succeeds
\* leaves employees_teams as it was plus the row (4, 0).
C10_DeleteRemovesNoRow ==
    [][(Calling("modifyData") /\ trx.held) =>
          /\ (at = 4 /\ at' = 5) => trx'.root.employees_teams = trx.root.employees_teams
          /\ (at = 5 /\ step' = step + 1 /\ lastStmt'.err = "ok") =>
                branches'[trx.conn].working.employees_teams =
                    trx.start.employees_teams \cup {Membership(4, 0)}]_vars

C10_Witness ==
    /\ runState = "running"
    /\ Call.fn = "modifyData"
    /\ at = 5
    /\ trx.held
    /\ \E r \in trx.start.employees_teams : r.employee_id = 0
    /\ \E r \in trx.start.employees_teams : r.employee_id = 1
    /\ trx.root.employees_teams = trx.start.employees_teams \cup {Membership(4, 0)}

SingleCaller(c) == \A d \in 1..NumCallers : d # c => callers[d].name # callers[c].name

\* C4: a single caller that calls createBranch twice for a branch that does
\* not exist: the first call sends the create command and it succeeds, every
\* later call finds the branch and sends none, and no call fails.
C4_SecondCallFindsBranch ==
    \A c \in 1..NumCallers :
        (SingleCaller(c) /\ callers[c].absent) =>
            \A i \in 1..Len(callers[c].hist) :
                /\ callers[c].hist[i] =
                      IF i = 1 THEN [rows |-> 0, issued |-> TRUE, err |-> "ok"]
                      ELSE [rows |-> 1, issued |-> FALSE, err |-> "ok"]
                /\ callers[c].name \in DOMAIN branches

C4_Witness ==
    \E c \in 1..NumCallers :
        /\ SingleCaller(c)
        /\ callers[c].absent
        /\ Len(callers[c].hist) >= 2
        /\ callers[c].hist[1].issued
        /\ ~callers[c].hist[2].issued

SawNoRow(c) == Len(callers[c].hist) >= 1 /\ callers[c].hist[1].rows = 0

\* C9: two callers of createBranch with the same name whose listing queries
\* both returned no row have both sent the create command, and the later of
\* the two creates met the branch the earlier had made.
C9_BothCallersCreate ==
    \A c, d \in 1..NumCallers :
        (c # d /\ callers[c].name = callers[d].name /\ SawNoRow(c) /\ SawNoRow(d)) =>
            /\ callers[c].hist[1].issued
            /\ callers[d].hist[1].issued
            /\ \/ callers[c].hist[1].err = "branch already exists"
               \/ callers[d].hist[1].err = "branch already exists"

C9_Witness ==
    \E c, d \in 1..NumCallers :
        /\ c # d
        /\ callers[c].name = callers[d].name
        /\ SawNoRow(c) /\ SawNoRow(d)
        /\ callers[c].hist[1].issued /\ callers[c].hist[1].err = "ok"
        /\ callers[d].hist[1].issued /\ callers[d].hist[1].err = "branch already exists"

====
